---- MODULE Spec2Model ----
(***************************************************************************)
(* A2A task orchestration and streaming layer.                             *)
(*                                                                         *)
(*   src/protocols.py  A2ATaskRouter, A2ATaskContext, A2ATaskResult,       *)
(*                     A2ATaskManager                                      *)
(*   src/main.py       handle_a2a_request and its event_generator          *)
(*                                                                         *)
(* Scheduling is asyncio's: one coroutine runs at a time and control moves *)
(* only at an await that really suspends.  A value of pc is a suspension   *)
(* point of a manager coroutine, a value of gpc one of the event           *)
(* generator; an action runs the code from one suspension point to the     *)
(* next.  Every `async with lock` is taken as a point where the coroutine  *)
(* may have to wait, and every knowledge-base call as an await that        *)
(* suspends.                                                               *)
(***************************************************************************)
EXTENDS Integers, Sequences, FiniteSets, TLC

\* ------------------------------------------------------------------ bounds
MaxCalls == 2
MaxStreamCalls == 2
MaxPush == 1
MaxOneTaskCalls == 3
MaxRegistrations == 3

Procs == {"p1", "p2"}
TaskIds == {"a", "b"}
Skills == {"known", "other"}
\* skill ids and handlers passed to the router's registration methods; "sync"
\* is a function that is not a coroutine function
RouterSkills == {"", "known", "other"}
Handlers == {"h1", "h2", "sync"}
McpCallers == {"c1", "c2", "c3"}
NoProc == "none"
NoHandler == "nohandler"

\* ---------------------------------------------------------------- state
VARIABLES
  tasks,             \* A2ATaskManager._tasks: task id -> task
  task_locks,        \* A2ATaskManager._task_locks: task id -> holder of the lock
  global_lock,       \* A2ATaskManager._global_lock: holder
  streaming_queues,  \* A2ATaskManager._streaming_queues: task id -> owner of the queue
  a2a_dlq,           \* A2ATaskManager.a2a_dlq
  metrics,           \* knowledge-base counters of category "a2a_tasks"
  handlers,          \* A2ATaskRouter._handlers: skill id -> handler
  default_handler,   \* A2ATaskRouter._default_handler (NoHandler for None)
  registrations,     \* the registration calls made on the router, in order
  calls,             \* number of requests received so far
  routedTo,          \* task id -> messages of the calls that resolved a handler
  op, tid, msg,      \* the request a process is serving
  skill,             \* skill id in the metadata of its message
  pc, phase,         \* position of the manager coroutine
  tmp,               \* value read by kb.get_metric, not yet written back
  outcome,           \* what the handler returned or raised
  err, res,          \* error code raised to the caller / Task returned
  hres,              \* how the background handler_task of a subscription ended
  gpc,               \* position of event_generator
  queue,             \* update_queue of the subscription
  sent,              \* every item ever put on update_queue, in put order
  delivered,         \* events yielded to the consumer, in order
  cancelled,         \* the transport cancelled the generator
  pushes,            \* events pushed by the running handler
  cpc,               \* position of A2AClientManager.send_task
  use_streaming,     \* send_task chose tasks/sendSubscribe
  received,          \* the lines of the event stream read so far
  last_known_task_state,  \* status of the latest status event, "none" for None
  stream_exc,        \* an error ended the reading of the stream
  ended,             \* how the loop over the stream's lines was left
  creturn,           \* how send_task ended
  sessions,          \* MCPClientManager._sessions[name]: the stored session, 0 for none
  mcp_locks,         \* MCPClientManager._locks[name]: the attempt holding it, 0 for free
  connection_tasks,  \* MCPClientManager._connection_tasks[name]: an attempt, 0 for no entry
  attempts,          \* the _connect tasks created so far: state and result of each
  stored,            \* every session ever put into _sessions
  mpc,               \* position of each get_session caller
  mwait,             \* the _connect task a caller awaits
  mres               \* what get_session gave the caller

mgrVars == <<tasks, task_locks, global_lock, streaming_queues, a2a_dlq, metrics>>
routerVars == <<handlers, default_handler, registrations>>
callVars == <<op, tid, msg, skill>>
coVars == <<pc, phase, tmp, outcome, err, res, hres>>
genVars == <<gpc, queue, sent, delivered, cancelled, pushes>>
clientVars == <<cpc, use_streaming, received, last_known_task_state, stream_exc, ended, creturn>>
mcpVars == <<sessions, mcp_locks, connection_tasks, attempts, stored, mpc, mwait, mres>>
vars == <<mgrVars, routerVars, calls, routedTo, callVars, coVars, genVars, clientVars, mcpVars>>

MetricNames == {"received", "completed", "failed", "canceled", "dlq_count"}
NoOutcome == [kind |-> "none", state |-> "none", artifacts |-> <<>>]
NoRes == [state |-> "none", history |-> <<>>, artifacts |-> <<>>, hl |-> 0]

\* What a handler can do: return an A2ATaskResult (any state string, any
\* artifact list) or raise.
Outcomes ==
  { [kind |-> "result", state |-> "completed", artifacts |-> <<"art">>],
    [kind |-> "result", state |-> "failed", artifacts |-> <<>>],
    [kind |-> "result", state |-> "input-required", artifacts |-> <<>>],
    [kind |-> "raise", state |-> "none", artifacts |-> <<>>] }

\* States in which a task accepts a new message.
PermittedStates == {"input-required", "completed", "working", "submitted", "canceled"}
TerminalStates == {"completed", "failed", "canceled"}

\* ---------------------------------------------------------------- helpers
\* A2ATaskRouter.get_handler
AnyHandler(skill_id) == "h1"
get_handler(skill_id) ==
  IF skill_id # "" /\ skill_id \in DOMAIN handlers THEN handlers[skill_id]
  ELSE IF default_handler # NoHandler THEN default_handler
  ELSE NoHandler

\* asyncio.Lock.acquire returns only when the lock is not held
LockFreeNoCheck(t) == TRUE
LockFree(t) == task_locks[t] = NoProc

\* leaving `async with <task lock>`
KeepTaskLock(locks, t) == locks
ReleaseTaskLock(locks, t) == [locks EXCEPT ![t] = NoProc]

\* task.history = (task.history or []) + [params.message]
OverwriteHistory(h, m) == <<m>>
AppendHistory(h, m) == Append(h, m)

\* self._update_task_state(...) at every call site: the method is declared
\* `async def` and is called without await, so the call only builds a
\* coroutine object that is dropped; the body (task.status = status,
\* task.artifacts = ...) never executes and the registry is left as it was.
AwaitedUpdate(T, t, status, artifacts, replace_artifacts) ==
  IF t \in DOMAIN T
    THEN [T EXCEPT ![t] = [@ EXCEPT !.state = status,
                                    !.artifacts = IF replace_artifacts THEN artifacts
                                                  ELSE @ \o artifacts]]
    ELSE T
update_task_state(T, t, status, artifacts, replace_artifacts) == T

\* task.copy(deep=True)
CopyTask(T, t) ==
  [state |-> T[t].state, history |-> T[t].history,
   artifacts |-> T[t].artifacts, hl |-> 0]

\* items put on update_queue / events yielded by the generator
ErrorInsteadOfStatus(q, state, final, by) ==
  [kind |-> "error", state |-> "none", final |-> FALSE, code |-> -32000,
   by |-> by, n |-> Len(q) + 1]
StatusEvent(q, state, final, by) ==
  [kind |-> "status", state |-> state, final |-> final, code |-> 0,
   by |-> by, n |-> Len(q) + 1]
ArtifactEvent(q) ==
  [kind |-> "artifact", state |-> "none", final |-> FALSE, code |-> 0,
   by |-> "handler", n |-> Len(q) + 1]
ErrorItem(q, code) ==
  [kind |-> "error", state |-> "none", final |-> FALSE, code |-> code,
   by |-> "manager", n |-> Len(q) + 1]
GeneratorFinalStatus ==
  [kind |-> "status", state |-> "failed", final |-> TRUE, code |-> 0,
   by |-> "generator", n |-> 0]
GeneratorError ==
  [kind |-> "error", state |-> "none", final |-> FALSE, code |-> -32000,
   by |-> "generator", n |-> 0]

\* the events after which event_generator leaves its loop
BreaksOnErrorOnly(u) == u.kind = "error"
EndsStream(u) == (u.kind = "status" /\ u.final) \/ u.kind = "error"

\* update_queue.get() hands out the oldest item and removes it
KeepHead(q) == q
Dequeue(q) == Tail(q)

\* del task_manager._streaming_queues[task_params.id]
KeepQueueEntry(sq, t) == sq
DropQueueEntry(sq, t) == [x \in DOMAIN sq \ {t} |-> sq[x]]

\* the counter a coroutine is incrementing at pc kb_get / kb_upd
MetricFor(p) ==
  CASE phase[p] = "enter" -> "received"
    [] phase[p] = "cancel" -> "canceled"
    [] phase[p] = "commit" /\ op[p] = "send" ->
         IF outcome[p].kind = "result" /\ outcome[p].state = "completed"
           THEN "completed" ELSE "failed"
    [] OTHER ->
         IF outcome[p].state = "completed" THEN "completed" ELSE "failed"

\* self.a2a_dlq.append((tid, method, reason))
ReplaceDlq(q, e) == <<e>>
add_to_dlq(q, e) == Append(q, e)

\* the entry _add_to_dlq appends at pc dlq
DlqEntry(p) ==
  CASE phase[p] = "route" -> <<tid[p], "tasks/send", "No suitable handler found">>
    [] phase[p] = "except" -> <<tid[p], "tasks/sendSubscribe", "Handler exception">>
    [] op[p] = "send" ->
         <<tid[p], "tasks/send",
           IF outcome[p].kind = "raise" THEN "Handler exception" ELSE "Handler failed">>
    [] OTHER -> <<tid[p], "tasks/sendSubscribe", "Stream handler failed">>

\* ---------------------------------------------------------------- Init
Init ==
  /\ tasks = << >>
  /\ task_locks = << >>
  /\ global_lock = NoProc
  /\ streaming_queues = << >>
  /\ a2a_dlq = << >>
  /\ metrics = [m \in MetricNames |-> 0]
  /\ handlers = ("known" :> "h1")
  /\ default_handler = NoHandler
  /\ registrations = <<[default |-> FALSE, skill_id |-> "known", handler |-> "h1"]>>
  /\ calls = 0
  /\ routedTo = [t \in TaskIds |-> {}]
  /\ op = [p \in Procs |-> "none"]
  /\ tid = [p \in Procs |-> "a"]
  /\ msg = [p \in Procs |-> 0]
  /\ skill = [p \in Procs |-> "known"]
  /\ pc = [p \in Procs |-> "idle"]
  /\ phase = [p \in Procs |-> "none"]
  /\ tmp = [p \in Procs |-> 0]
  /\ outcome = [p \in Procs |-> NoOutcome]
  /\ err = [p \in Procs |-> 0]
  /\ res = [p \in Procs |-> NoRes]
  /\ hres = [p \in Procs |-> "none"]
  /\ gpc = [p \in Procs |-> "none"]
  /\ queue = [p \in Procs |-> << >>]
  /\ sent = [p \in Procs |-> << >>]
  /\ delivered = [p \in Procs |-> << >>]
  /\ cancelled = [p \in Procs |-> FALSE]
  /\ cpc = "idle"
  /\ use_streaming = FALSE
  /\ received = << >>
  /\ last_known_task_state = "none"
  /\ stream_exc = FALSE
  /\ ended = "no"
  /\ creturn = "none"
  /\ sessions = 0
  /\ mcp_locks = 0
  /\ connection_tasks = 0
  /\ attempts = << >>
  /\ stored = {}
  /\ mpc = [c \in McpCallers |-> "idle"]
  /\ mwait = [c \in McpCallers |-> 0]
  /\ mres = [c \in McpCallers |-> 0]
  /\ pushes = [p \in Procs |-> 0]

\* ---------------------------------------------------------------- requests
\* handle_a2a_request: a request arrives.  tasks/send runs handle_task_send in
\* the request's coroutine; tasks/sendSubscribe returns an event_generator;
\* tasks/get and tasks/cancel go to their manager methods.
Free(p) == pc[p] \in {"idle", "done"} /\ gpc[p] \in {"none", "g_done"}

\* Requests are served by whichever coroutine slot is free; the free slots are
\* interchangeable, so a request takes the first one.
Start(p, ops, tids, limit) ==
  /\ Free(p)
  /\ p = "p2" => ~Free("p1")
  /\ calls < limit
  /\ calls' = calls + 1
  /\ \E o \in ops, t \in tids, sk \in Skills :
       /\ o \in {"get", "cancel"} => sk = "known"
       /\ skill' = [skill EXCEPT ![p] = sk]
       /\ op' = [op EXCEPT ![p] = o]
       /\ tid' = [tid EXCEPT ![p] = t]
       /\ pc' = [pc EXCEPT ![p] =
                   CASE o = "send" -> "route" [] o = "sub" -> "unborn" [] OTHER -> "getlock"]
       /\ phase' = [phase EXCEPT ![p] =
                      CASE o = "get" -> "get" [] o = "cancel" -> "cancel" [] OTHER -> "route"]
       /\ gpc' = [gpc EXCEPT ![p] = IF o = "sub" THEN "g_reg" ELSE "none"]
  /\ msg' = [msg EXCEPT ![p] = calls + 1]
  /\ tmp' = [tmp EXCEPT ![p] = 0]
  /\ outcome' = [outcome EXCEPT ![p] = NoOutcome]
  /\ err' = [err EXCEPT ![p] = 0]
  /\ res' = [res EXCEPT ![p] = NoRes]
  /\ hres' = [hres EXCEPT ![p] = "none"]
  /\ queue' = [queue EXCEPT ![p] = << >>]
  /\ sent' = [sent EXCEPT ![p] = << >>]
  /\ delivered' = [delivered EXCEPT ![p] = << >>]
  /\ cancelled' = [cancelled EXCEPT ![p] = FALSE]
  /\ pushes' = [pushes EXCEPT ![p] = 0]
  /\ UNCHANGED <<mgrVars, routerVars, clientVars, mcpVars, routedTo>>

\* _get_handler_for_task: the skill id of the message is looked up in the
\* router; with no handler the request goes to the dead-letter queue.
Route(p) ==
  /\ pc[p] = "route"
  /\ IF get_handler(skill[p]) # NoHandler
       THEN /\ pc' = [pc EXCEPT ![p] = "getlock"]
            /\ phase' = [phase EXCEPT ![p] = "enter"]
            /\ routedTo' = [routedTo EXCEPT ![tid[p]] = @ \cup {msg[p]}]
       ELSE /\ pc' = [pc EXCEPT ![p] = "dlq"]
            /\ phase' = [phase EXCEPT ![p] = "route"]
            /\ UNCHANGED routedTo
  /\ UNCHANGED <<mgrVars, routerVars, clientVars, mcpVars, calls, callVars, tmp, outcome, err, res, hres, genVars>>

\* _add_to_dlq, up to its await: take the global lock and append the entry.
DlqAppend(p) ==
  /\ pc[p] = "dlq"
  /\ global_lock = NoProc
  /\ global_lock' = p
  /\ a2a_dlq' = add_to_dlq(a2a_dlq, DlqEntry(p))
  /\ pc' = [pc EXCEPT ![p] = "dlq_metric"]
  /\ UNCHANGED <<tasks, task_locks, streaming_queues, metrics, routerVars, clientVars, mcpVars, calls,
                 routedTo, callVars, phase, tmp, outcome, err, res, hres, genVars>>

\* _add_to_dlq after kb.update_metric("dlq_count") returned: the global lock is
\* released and the caller goes on.
DlqMetric(p) ==
  /\ pc[p] = "dlq_metric"
  /\ metrics' = [metrics EXCEPT !["dlq_count"] = Len(a2a_dlq)]
  /\ global_lock' = NoProc
  /\ CASE phase[p] = "route" ->
            \* raise A2AError(code=-32601)
            /\ pc' = [pc EXCEPT ![p] = "done"]
            /\ err' = [err EXCEPT ![p] = -32601]
            /\ hres' = [hres EXCEPT ![p] = IF op[p] = "sub" THEN "raised" ELSE "none"]
            /\ UNCHANGED <<phase, task_locks>>
       [] phase[p] = "except" ->
            \* the finally block of handle_task_send_subscribe follows
            /\ pc' = [pc EXCEPT ![p] = "lock"]
            /\ phase' = [phase EXCEPT ![p] = "commit"]
            /\ UNCHANGED <<err, hres, task_locks>>
       [] phase[p] = "commit" /\ op[p] = "send" ->
            \* end of the commit block: the task lock is released
            /\ task_locks' = ReleaseTaskLock(task_locks, tid[p])
            /\ pc' = [pc EXCEPT ![p] = "getlock"]
            /\ phase' = [phase EXCEPT ![p] = "ret"]
            /\ UNCHANGED <<err, hres>>
       [] OTHER ->
            \* streaming commit: the counter is updated after the dlq entry
            /\ pc' = [pc EXCEPT ![p] = "kb_get"]
            /\ UNCHANGED <<phase, err, hres, task_locks>>
  /\ UNCHANGED <<tasks, streaming_queues, a2a_dlq, routerVars, clientVars, mcpVars, calls, routedTo,
                 callVars, tmp, outcome, res, genVars>>

\* _get_task_lock: under the global lock, create the task's lock if missing.
GetTaskLock(p) ==
  /\ pc[p] = "getlock"
  /\ global_lock = NoProc
  /\ task_locks' = IF tid[p] \in DOMAIN task_locks
                     THEN task_locks
                     ELSE task_locks @@ (tid[p] :> NoProc)
  /\ pc' = [pc EXCEPT ![p] = "lock"]
  /\ UNCHANGED <<tasks, global_lock, streaming_queues, a2a_dlq, metrics, routerVars, clientVars, mcpVars,
                 calls, routedTo, callVars, phase, tmp, outcome, err, res, hres, genVars>>

\* context.update_status / context.yield_artifact: put on update_queue
Put(p, item) ==
  /\ queue' = [queue EXCEPT ![p] = Append(@, item)]
  /\ sent' = [sent EXCEPT ![p] = Append(@, item)]

\* The handler is invoked: handle_task_send builds a context without a queue;
\* handle_task_send_subscribe first pushes the initial "working" status.
InvokeHandlerSilently(p) ==
  /\ pc' = [pc EXCEPT ![p] = "handler"]
  /\ UNCHANGED <<queue, sent>>

InvokeHandler(p) ==
  /\ pc' = [pc EXCEPT ![p] = "handler"]
  /\ IF op[p] = "sub"
       THEN Put(p, StatusEvent(sent[p], "working", FALSE, "manager"))
       ELSE UNCHANGED <<queue, sent>>

\* raise A2AError(f"Task {task_id} not found", code=-32001)
WrongNotFoundCode(t) == -32000
TaskNotFound(t) == -32001

\* tasks/get: history_length applied to the copy
WholeHistory(h, n) == h
TruncateHistory(h, n) ==
  IF n >= 0 /\ h # << >>
    THEN \* task_copy.history[-history_length:]; h[-0:] is the whole list
         IF n = 0 \/ n >= Len(h) THEN h ELSE SubSeq(h, Len(h) - n + 1, Len(h))
    ELSE IF n = 0 THEN << >> ELSE h

HistoryLengths == {-1, 0, 1, 2}

\* `async with <task lock>`: the lock is acquired and the block runs up to its
\* first await (or to its end).
AcquireTaskLock(p) ==
  LET t == tid[p]
      held == [task_locks EXCEPT ![t] = p]
  IN
  /\ pc[p] = "lock"
  /\ LockFree(t)
  /\ CASE phase[p] = "enter" ->
            IF t \in DOMAIN tasks
              THEN IF tasks[t].state \notin PermittedStates
                     THEN \* send raises -32004; sendSubscribe puts the error on the queue and returns
                          /\ task_locks' = ReleaseTaskLock(held, t)
                          /\ pc' = [pc EXCEPT ![p] = "done"]
                          /\ IF op[p] = "sub"
                               THEN /\ Put(p, ErrorItem(sent[p], -32004))
                                    /\ hres' = [hres EXCEPT ![p] = "returned"]
                                    /\ UNCHANGED err
                               ELSE /\ err' = [err EXCEPT ![p] = -32004]
                                    /\ UNCHANGED <<queue, sent, hres>>
                          /\ UNCHANGED <<tasks, res>>
                     ELSE \* append the message, mark working, copy, leave the lock
                          /\ tasks' = update_task_state(
                                        [tasks EXCEPT ![t] =
                                           [@ EXCEPT !.history = AppendHistory(@, msg[p]),
                                                     !.state = "working"]],
                                        t, "working", << >>, FALSE)
                          /\ task_locks' = ReleaseTaskLock(held, t)
                          /\ InvokeHandler(p)
                          /\ UNCHANGED <<err, res, hres>>
              ELSE \* new task; the "received" counter is updated under the lock
                   /\ tasks' = tasks @@ (t :> [state |-> "working",
                                                history |-> <<msg[p]>>,
                                                artifacts |-> << >>])
                   /\ task_locks' = held
                   /\ pc' = [pc EXCEPT ![p] = "kb_get"]
                   /\ UNCHANGED <<err, res, hres, queue, sent>>
       [] phase[p] = "commit" ->
            \* the result (or the failed status of a crash) is committed
            /\ tasks' = update_task_state(tasks, t,
                          IF outcome[p].kind = "raise" THEN "failed" ELSE outcome[p].state,
                          outcome[p].artifacts, TRUE)
            /\ task_locks' =
                 IF op[p] = "send" /\ outcome[p].kind = "result"
                    /\ outcome[p].state \notin {"completed", "failed"}
                   THEN ReleaseTaskLock(held, t) ELSE held
            /\ pc' = [pc EXCEPT ![p] =
                 IF op[p] = "send"
                   THEN IF outcome[p].kind = "result"
                           /\ outcome[p].state \notin {"completed", "failed"}
                          THEN "getlock" ELSE "kb_get"
                   ELSE IF outcome[p].state = "completed" THEN "kb_get" ELSE "dlq"]
            /\ UNCHANGED <<err, res, hres, queue, sent>>
       [] phase[p] = "ret" ->
            \* return self._tasks[task_id].copy(deep=True)
            /\ res' = [res EXCEPT ![p] = CopyTask(tasks, t)]
            /\ task_locks' = ReleaseTaskLock(held, t)
            /\ pc' = [pc EXCEPT ![p] = "done"]
            /\ UNCHANGED <<tasks, err, hres, queue, sent>>
       [] phase[p] = "get" ->
            /\ task_locks' = ReleaseTaskLock(held, t)
            /\ pc' = [pc EXCEPT ![p] = "done"]
            /\ IF t \notin DOMAIN tasks
                 THEN /\ err' = [err EXCEPT ![p] = TaskNotFound(t)]
                      /\ UNCHANGED res
                 ELSE /\ \E n \in HistoryLengths :
                           res' = [res EXCEPT ![p] =
                                     [CopyTask(tasks, t) EXCEPT
                                        !.history = TruncateHistory(@, n), !.hl = n]]
                      /\ UNCHANGED err
            /\ UNCHANGED <<tasks, hres, queue, sent>>
       [] OTHER ->
            \* tasks/cancel
            IF t \notin DOMAIN tasks
              THEN /\ err' = [err EXCEPT ![p] = TaskNotFound(t)]
                   /\ task_locks' = ReleaseTaskLock(held, t)
                   /\ pc' = [pc EXCEPT ![p] = "done"]
                   /\ UNCHANGED <<tasks, res, hres, queue, sent>>
              ELSE IF tasks[t].state \in TerminalStates
                     THEN /\ res' = [res EXCEPT ![p] = CopyTask(tasks, t)]
                          /\ task_locks' = ReleaseTaskLock(held, t)
                          /\ pc' = [pc EXCEPT ![p] = "done"]
                          /\ UNCHANGED <<tasks, err, hres, queue, sent>>
                     ELSE /\ tasks' = update_task_state(tasks, t, "canceled", << >>, TRUE)
                          /\ task_locks' = held
                          /\ pc' = [pc EXCEPT ![p] = "kb_get"]
                          /\ UNCHANGED <<err, res, hres, queue, sent>>
  /\ phase' = [phase EXCEPT ![p] =
                 IF phase[p] = "commit" /\ pc'[p] = "getlock" THEN "ret" ELSE @]
  /\ UNCHANGED <<global_lock, streaming_queues, a2a_dlq, metrics, routerVars, clientVars, mcpVars, calls,
                 routedTo, callVars, tmp, outcome, gpc, delivered, cancelled, pushes>>

\* kb.get_metric("a2a_tasks", name, 0): the value read waits in the coroutine
KbGet(p) ==
  /\ pc[p] = "kb_get"
  /\ tmp' = [tmp EXCEPT ![p] = metrics[MetricFor(p)]]
  /\ pc' = [pc EXCEPT ![p] = "kb_upd"]
  /\ UNCHANGED <<mgrVars, routerVars, clientVars, mcpVars, calls, routedTo, callVars, phase, outcome,
                 err, res, hres, genVars>>

\* kb.update_metric("a2a_tasks", name, value read + 1), and the code up to the
\* next await.
KbUpdate(p) ==
  LET t == tid[p] IN
  /\ pc[p] = "kb_upd"
  /\ metrics' = [metrics EXCEPT ![MetricFor(p)] = tmp[p] + 1]
  /\ tmp' = [tmp EXCEPT ![p] = 0]
  /\ CASE phase[p] = "enter" ->
            \* task_copy is taken, the lock released, the handler invoked
            /\ task_locks' = ReleaseTaskLock(task_locks, t)
            /\ InvokeHandler(p)
            /\ UNCHANGED <<phase, res, hres>>
       [] phase[p] = "cancel" ->
            /\ task_locks' = ReleaseTaskLock(task_locks, t)
            /\ res' = [res EXCEPT ![p] = CopyTask(tasks, t)]
            /\ pc' = [pc EXCEPT ![p] = "done"]
            /\ UNCHANGED <<phase, hres, queue, sent>>
       [] phase[p] = "commit" /\ op[p] = "send" ->
            IF MetricFor(p) = "completed"
              THEN /\ task_locks' = ReleaseTaskLock(task_locks, t)
                   /\ pc' = [pc EXCEPT ![p] = "getlock"]
                   /\ phase' = [phase EXCEPT ![p] = "ret"]
                   /\ UNCHANGED <<res, hres, queue, sent>>
              ELSE /\ pc' = [pc EXCEPT ![p] = "dlq"]
                   /\ UNCHANGED <<task_locks, phase, res, hres, queue, sent>>
       [] OTHER ->
            \* end of handle_task_send_subscribe
            /\ task_locks' = ReleaseTaskLock(task_locks, t)
            /\ pc' = [pc EXCEPT ![p] = "done"]
            /\ hres' = [hres EXCEPT ![p] = "returned"]
            /\ UNCHANGED <<phase, res, queue, sent>>
  /\ UNCHANGED <<tasks, global_lock, streaming_queues, a2a_dlq, routerVars, clientVars, mcpVars, calls,
                 routedTo, callVars, outcome, err, gpc, delivered, cancelled, pushes>>

\* The handler of a subscription calls context.update_status or
\* context.yield_artifact while it runs.
HandlerPush(p) ==
  /\ pc[p] = "handler"
  /\ op[p] = "sub"
  /\ pushes[p] < MaxPush
  /\ pushes' = [pushes EXCEPT ![p] = @ + 1]
  /\ \E item \in { StatusEvent(sent[p], "working", FALSE, "handler"),
                   StatusEvent(sent[p], "completed", TRUE, "handler"),
                   ArtifactEvent(sent[p]) } :
       Put(p, item)
  /\ UNCHANGED <<mgrVars, routerVars, clientVars, mcpVars, calls, routedTo, callVars, coVars,
                 gpc, delivered, cancelled>>

\* The handler returns an A2ATaskResult or raises.
HandlerFinish(p) ==
  /\ pc[p] = "handler"
  /\ \E o \in Outcomes :
       /\ outcome' = [outcome EXCEPT ![p] = o]
       /\ IF op[p] = "send"
            THEN /\ pc' = [pc EXCEPT ![p] = "getlock"]
                 /\ phase' = [phase EXCEPT ![p] = "commit"]
                 /\ UNCHANGED <<queue, sent>>
            ELSE IF o.kind = "result"
                   THEN \* final status pushed, then the finally block
                        /\ Put(p, StatusEvent(sent[p], o.state, TRUE, "manager"))
                        /\ pc' = [pc EXCEPT ![p] = "lock"]
                        /\ phase' = [phase EXCEPT ![p] = "commit"]
                   ELSE \* except: final failed status pushed, then _add_to_dlq
                        /\ Put(p, StatusEvent(sent[p], "failed", TRUE, "manager"))
                        /\ pc' = [pc EXCEPT ![p] = "dlq"]
                        /\ phase' = [phase EXCEPT ![p] = "except"]
  /\ UNCHANGED <<mgrVars, routerVars, clientVars, mcpVars, calls, routedTo, callVars, tmp, err, res, hres,
                 gpc, delivered, cancelled, pushes>>

\* ---------------------------------------------------------------- streaming
\* event_generator up to its loop: the queue is entered in the streaming-queue
\* table under the global lock and handle_task_send_subscribe is started as a
\* background task.
GenRegister(p) ==
  /\ gpc[p] = "g_reg"
  /\ global_lock = NoProc
  /\ streaming_queues' =
       [x \in DOMAIN streaming_queues \cup {tid[p]} |->
          IF x = tid[p] THEN p ELSE streaming_queues[x]]
  /\ gpc' = [gpc EXCEPT ![p] = "g_wait"]
  /\ pc' = [pc EXCEPT ![p] = "route"]
  /\ UNCHANGED <<tasks, task_locks, global_lock, a2a_dlq, metrics, routerVars, clientVars, mcpVars, calls,
                 routedTo, callVars, phase, tmp, outcome, err, res, hres,
                 queue, sent, delivered, cancelled, pushes>>

\* asyncio.wait returned with queue_task done: the item is yielded, as an update
\* event or, for an error put on the queue, as an error event.  A queue_task
\* that finds an item completes before the generator resumes, so this branch
\* is the one taken whenever the queue holds an item.
GenDeliver(p) ==
  /\ gpc[p] = "g_wait"
  /\ queue[p] # << >>
  /\ LET update == Head(queue[p]) IN
       /\ delivered' = [delivered EXCEPT ![p] = Append(@, update)]
       /\ gpc' = [gpc EXCEPT ![p] = IF EndsStream(update) THEN "g_fin" ELSE "g_wait"]
  /\ queue' = [queue EXCEPT ![p] = Dequeue(@)]
  /\ UNCHANGED <<mgrVars, routerVars, clientVars, mcpVars, calls, routedTo, callVars, coVars,
                 sent, cancelled, pushes>>

\* asyncio.wait returned with only handler_task done: an error event (-32000)
\* is yielded, whether the task raised or returned, and the loop ends.
GenHandlerDone(p) ==
  /\ gpc[p] = "g_wait"
  /\ queue[p] = << >>
  /\ pc[p] = "done"
  /\ delivered' = [delivered EXCEPT ![p] = Append(@, GeneratorError)]
  /\ gpc' = [gpc EXCEPT ![p] = "g_fin"]
  /\ UNCHANGED <<mgrVars, routerVars, clientVars, mcpVars, calls, routedTo, callVars, coVars,
                 queue, sent, cancelled, pushes>>

\* The transport drops the connection: CancelledError in the generator.
GenCancel(p) ==
  /\ gpc[p] = "g_wait"
  /\ cancelled' = [cancelled EXCEPT ![p] = TRUE]
  /\ gpc' = [gpc EXCEPT ![p] = "g_fin"]
  /\ UNCHANGED <<mgrVars, routerVars, clientVars, mcpVars, calls, routedTo, callVars, coVars,
                 queue, sent, delivered, pushes>>

\* handler_task.done()
AssumedDone(p) == TRUE
handler_task_done(p) == pc[p] = "done"

\* The finally block of event_generator: the table entry of the task id is
\* deleted under the global lock; a handler_task that is not done is cancelled
\* and awaited.  CancelledError reaches the coroutine at the await it is
\* suspended in: the `async with` blocks it is inside release their locks; it
\* is no Exception, so the except clause is skipped, and the finally block of
\* handle_task_send_subscribe runs its commit only if final_status is set,
\* which at an await is the case only inside the except clause.  Nothing reads
\* or writes update_queue after this point: the generator's locals are dropped.
GenCleanup(p) ==
  LET t == tid[p] IN
  /\ gpc[p] = "g_fin"
  /\ global_lock = NoProc
  /\ streaming_queues' =
       IF t \in DOMAIN streaming_queues
         THEN DropQueueEntry(streaming_queues, t) ELSE streaming_queues
  /\ IF handler_task_done(p)
       THEN /\ gpc' = [gpc EXCEPT ![p] = "g_done"]
            /\ UNCHANGED <<pc, phase, hres, task_locks, routedTo, tmp>>
       ELSE IF phase[p] = "except"
              THEN /\ pc' = [pc EXCEPT ![p] = "lock"]
                   /\ phase' = [phase EXCEPT ![p] = "commit"]
                   /\ gpc' = [gpc EXCEPT ![p] = "g_await"]
                   /\ UNCHANGED <<hres, task_locks, routedTo, tmp>>
              ELSE /\ pc' = [pc EXCEPT ![p] = "done"]
                   /\ hres' = [hres EXCEPT ![p] = "cancelled"]
                   /\ tmp' = [tmp EXCEPT ![p] = 0]
                   /\ task_locks' =
                        IF t \in DOMAIN task_locks /\ task_locks[t] = p
                          THEN ReleaseTaskLock(task_locks, t) ELSE task_locks
                   /\ routedTo' =
                        IF phase[p] = "enter" /\ pc[p] \in {"getlock", "lock"}
                          THEN [routedTo EXCEPT ![t] = @ \ {msg[p]}] ELSE routedTo
                   /\ gpc' = [gpc EXCEPT ![p] = "g_done"]
                   /\ UNCHANGED phase
  /\ queue' = [queue EXCEPT ![p] = << >>]
  /\ sent' = [sent EXCEPT ![p] = << >>]
  /\ pushes' = [pushes EXCEPT ![p] = 0]
  /\ UNCHANGED <<tasks, global_lock, a2a_dlq, metrics, routerVars, clientVars, mcpVars, calls, callVars,
                 outcome, err, res, delivered, cancelled>>

\* `await handler_task` in the finally block returns
GenAwaitDone(p) ==
  /\ gpc[p] = "g_await"
  /\ handler_task_done(p)
  /\ gpc' = [gpc EXCEPT ![p] = "g_done"]
  /\ UNCHANGED <<mgrVars, routerVars, clientVars, mcpVars, calls, routedTo, callVars, coVars,
                 queue, sent, delivered, cancelled, pushes>>

\* ---------------------------------------------------------------- specifications
OneShotOps == {"send", "get", "cancel"}
AllOps == {"send", "sub", "get", "cancel"}

\* the steps of the manager coroutines
ManagerStep(p) ==
  \/ Route(p)
  \/ DlqAppend(p)
  \/ DlqMetric(p)
  \/ GetTaskLock(p)
  \/ AcquireTaskLock(p)
  \/ KbGet(p)
  \/ KbUpdate(p)

\* the steps of event_generator, the transport's cancellation apart
GenStep(p) ==
  \/ GenRegister(p)
  \/ GenDeliver(p)
  \/ GenHandlerDone(p)
  \/ GenCleanup(p)
  \/ GenAwaitDone(p)

\* One-shot requests on two task ids.
Next ==
  \E p \in Procs :
    \/ Start(p, OneShotOps, TaskIds, MaxCalls)
    \/ ManagerStep(p)
    \/ HandlerFinish(p)

Spec == Init /\ [][Next]_vars

\* All four methods on one task id.
StreamNext ==
  \E p \in Procs :
    \/ Start(p, AllOps, {"a"}, MaxStreamCalls)
    \/ ManagerStep(p)
    \/ HandlerPush(p)
    \/ HandlerFinish(p)
    \/ GenStep(p)
    \/ GenCancel(p)

SpecStream == Init /\ [][StreamNext]_vars

\* Fairness.  The event loop runs every coroutine that can run, and an
\* asyncio.Lock wakes its waiters in turn, so a coroutine waiting for a lock
\* that is released again and again gets it.  Nothing makes a handler return.
\* Handlers serving task "b" are taken to return; those serving task "a" may
\* stay blocked for ever.
Fairness ==
  \A p \in Procs :
    /\ SF_vars(ManagerStep(p))
    /\ WF_vars(HandlerFinish(p) /\ tid[p] = "b")

SpecLive == Spec /\ Fairness

\* One subscription with a one-shot request beside it, every handler
\* returning or raising in the end; the transport may cancel at any time.
StreamLiveNext ==
  \E p \in Procs :
    \/ Start(p, IF p = "p1" THEN {"sub"} ELSE OneShotOps, {"a"}, MaxStreamCalls)
    \/ ManagerStep(p)
    \/ HandlerPush(p)
    \/ HandlerFinish(p)
    \/ GenStep(p)
    \/ GenCancel(p)

StreamFairness ==
  \A p \in Procs :
    /\ SF_vars(ManagerStep(p))
    /\ WF_vars(HandlerFinish(p))
    /\ SF_vars(GenStep(p))

SpecStreamLive == Init /\ [][StreamLiveNext]_vars /\ StreamFairness

\* ---------------------------------------------------------------- properties
Last(q) == q[Len(q)]

\* the call of p returned a Task / the stream of p is over
Returned(p) == pc[p] = "done" /\ err[p] = 0
StreamOver(p) == op[p] = "sub" /\ gpc[p] \in {"g_fin", "g_await", "g_done"}

\* a terminal event: a status event with final=true, or an error event
TerminalEvent(e) == (e.kind = "status" /\ e.final) \/ e.kind = "error"
FromQueue(e) == e.by # "generator"

\* inside the per-task critical section: between acquiring the task lock and
\* leaving its `async with` block
InCriticalSection(p) ==
  /\ phase[p] \in {"enter", "commit", "cancel"}
  /\ pc[p] \in {"kb_get", "kb_upd", "dlq", "dlq_metric"}

\* C1: once a tasks/send whose skill resolved to a handler has returned, the
\* state of the task in the returned Task (the copy of the registry task taken
\* on return) is completed or failed, whatever the handler did.  Stated for a
\* call that no later message for the same id overtook.
C1_SendEndsCompletedOrFailed ==
  \A p \in Procs :
    (op[p] = "send" /\ Returned(p) /\ Last(res[p].history) = msg[p])
      => res[p].state \in {"completed", "failed"}

\* C2: when the handler of a tasks/send raises, the call returns normally with
\* a Task whose state is failed and whose artifacts are empty.
C2_RaiseReturnsFailedTask ==
  \A p \in Procs :
    (op[p] = "send" /\ pc[p] = "done" /\ outcome[p].kind = "raise"
       /\ Last(res[p].history) = msg[p])
      => (err[p] = 0 /\ res[p].state = "failed" /\ res[p].artifacts = << >>)

\* C3: no history append is lost or overwritten: the history of a task holds
\* every message of a call that resolved a handler for that id exactly once,
\* apart from the calls that have not reached their append yet, and nothing
\* else; with such a message there is an entry for the id.
C3_NoLostAppend ==
  \A t \in TaskIds :
    LET h == IF t \in DOMAIN tasks THEN tasks[t].history ELSE << >> IN
    /\ \A i, j \in 1..Len(h) : i # j => h[i] # h[j]
    /\ \A i \in 1..Len(h) : h[i] \in routedTo[t]
    /\ \A m \in routedTo[t] :
         \/ \E i \in 1..Len(h) : h[i] = m
         \/ \E p \in Procs : /\ msg[p] = m
                             /\ phase[p] = "enter"
                             /\ pc[p] \in {"getlock", "lock"}

\* two tasks/send calls for one id in flight together, both messages appended
C3_Witness ==
  /\ pc["p1"] = "handler" /\ pc["p2"] = "handler"
  /\ op["p1"] = "send" /\ op["p2"] = "send"
  /\ tid["p1"] = tid["p2"]
  /\ Len(tasks[tid["p1"]].history) = 2

\* C4: at most one operation is inside the per-task critical section of a task
\* id, and the one inside holds that id's lock.
C4_MutualExclusion ==
  \A p, q \in Procs :
    /\ (p # q /\ InCriticalSection(p) /\ InCriticalSection(q)) => tid[p] # tid[q]
    /\ InCriticalSection(p) =>
         (tid[p] \in DOMAIN task_locks /\ task_locks[tid[p]] = p)

\* a subscription inside the critical section while another call waits for the
\* same lock
C4_Witness ==
  \E p, q \in Procs :
    /\ p # q
    /\ op[p] = "sub" /\ InCriticalSection(p)
    /\ pc[q] = "lock" /\ tid[q] = tid[p]

\* C5: while a handler runs, the operation that invoked it holds neither the
\* lock of its task nor the global lock.
C5_HandlerRunsUnlocked ==
  \A p \in Procs :
    pc[p] = "handler" =>
      /\ global_lock # p
      /\ tid[p] \in DOMAIN task_locks /\ task_locks[tid[p]] # p

\* a streaming handler runs while another call is inside the critical section
\* of the same task
C5_Witness ==
  \E p, q \in Procs :
    /\ p # q
    /\ op[p] = "sub" /\ pc[p] = "handler"
    /\ InCriticalSection(q) /\ tid[q] = tid[p]

\* C6: a handler blocked on task "a" blocks nothing else.  Every call other
\* than a tasks/send on "a" -- tasks/send, tasks/get and tasks/cancel on "b",
\* tasks/get and tasks/cancel on "a" -- runs to its end, and a tasks/get
\* returns the state the registry holds when it reads it, which is working
\* while a handler of that task is running.
C6_BlockedHandlerBlocksNoOne ==
  /\ \A p \in Procs :
       (pc[p] \notin {"idle", "done"} /\ ~(op[p] = "send" /\ tid[p] = "a"))
         ~> (pc[p] = "done")
  /\ [][\A p \in Procs :
          (op[p] = "get" /\ pc[p] = "lock" /\ pc'[p] = "done" /\ err'[p] = 0)
            => /\ res'[p].state = tasks[tid[p]].state
               /\ (\E q \in Procs : pc[q] = "handler" /\ tid[q] = tid[p])
                    => res'[p].state = "working"]_vars

\* a tasks/get on "a" has returned the working task while the handler of a
\* tasks/send on "a" is still running
C6_Witness ==
  \E p, q \in Procs :
    /\ op[q] = "send" /\ tid[q] = "a" /\ pc[q] = "handler"
    /\ op[p] = "get" /\ tid[p] = "a" /\ Returned(p)
    /\ res[p].state = "working"

\* C7: a subscription delivers at most one terminal event and nothing after
\* it; a stream that ended without the transport cancelling it delivered
\* exactly one; and every subscription comes to its end.
C7_OneTerminalEvent ==
  /\ [](\A p \in Procs :
          /\ \A i \in 1..Len(delivered[p]) :
               TerminalEvent(delivered[p][i]) => i = Len(delivered[p])
          /\ (StreamOver(p) /\ ~cancelled[p]) =>
               /\ delivered[p] # << >>
               /\ TerminalEvent(Last(delivered[p])))
  /\ \A p \in Procs : (gpc[p] = "g_reg") ~> (gpc[p] = "g_done")

\* a stream has ended on the final failed status of a handler that raised
C7_Witness ==
  \E p \in Procs :
    /\ StreamOver(p) /\ ~cancelled[p]
    /\ outcome[p].kind = "raise"
    /\ Last(delivered[p]).kind = "status"
    /\ Last(delivered[p]).state = "failed"

\* C8: the events delivered from the queue, followed by the events still in
\* it, are the events put into it, in that order; a stream that ended on a
\* queued event delivered everything up to the first terminal event; and the
\* generator's own "handler finished" error is only delivered with the queue
\* empty.
C8_NoEventLost ==
  \A p \in Procs :
    (op[p] = "sub" /\ gpc[p] \in {"g_wait", "g_fin"}) =>
      LET d == SelectSeq(delivered[p], FromQueue) IN
      /\ d \o queue[p] = sent[p]
      /\ \A i \in 1..Len(d) : TerminalEvent(d[i]) => i = Len(d)
      /\ (d # delivered[p]) => (queue[p] = << >> /\ pc[p] = "done")

\* a stream has ended on its final status after an artifact of the handler
C8_Witness ==
  \E p \in Procs :
    /\ gpc[p] = "g_fin" /\ ~cancelled[p]
    /\ Len(delivered[p]) = 3
    /\ delivered[p][2].kind = "artifact"
    /\ delivered[p][3].final
    /\ delivered[p] = sent[p]

\* C9: once the stream of a subscription has ended and its cleanup has run,
\* the streaming-queue table holds no entry registered by that subscription.
C9_QueueEntryRemoved ==
  \A p \in Procs :
    (op[p] = "sub" /\ gpc[p] \in {"g_await", "g_done"}) =>
      ~(tid[p] \in DOMAIN streaming_queues /\ streaming_queues[tid[p]] = p)

\* a stream cancelled by the transport has been cleaned up
C9_Witness ==
  \E p \in Procs :
    /\ op[p] = "sub" /\ gpc[p] = "g_done" /\ cancelled[p]
    /\ tid[p] \notin DOMAIN streaming_queues

\* C10: when the handler of a subscription has returned or raised and the call
\* has run to its end, the registry holds the final state of the Result, or
\* failed after an exception.  Stated for a task that no later message and no
\* cancel touched.
C10_StreamCommitsResult ==
  \A p \in Procs :
    (/\ op[p] = "sub" /\ pc[p] = "done" /\ hres[p] = "returned"
     /\ outcome[p].kind # "none"
     /\ Last(tasks[tid[p]].history) = msg[p]
     /\ \A q \in Procs \ {p} : op[q] # "cancel")
      => tasks[tid[p]].state =
           (IF outcome[p].kind = "raise" THEN "failed" ELSE outcome[p].state)

\* The streaming scenario of C11: the stream of p has ended, untouched by the
\* transport, after a handler that pushed one non-final "working" status and
\* nothing else and then returned a completed Result with one artifact.
WorkingOnceThenCompleted(p) ==
  /\ op[p] = "sub" /\ gpc[p] = "g_fin" /\ ~cancelled[p]
  /\ outcome[p] = [kind |-> "result", state |-> "completed", artifacts |-> <<"art">>]
  /\ pushes[p] = 1
  /\ \E i \in 1..Len(sent[p]) :
       /\ sent[p][i].by = "handler" /\ sent[p][i].kind = "status"
       /\ sent[p][i].state = "working" /\ ~sent[p][i].final

\* C11 as stated: in that scenario the consumer gets exactly two events, a
\* non-final status event and then a final status event.
C11_TwoEvents ==
  \A p \in Procs :
    WorkingOnceThenCompleted(p) =>
      /\ Len(delivered[p]) = 2
      /\ delivered[p][1].kind = "status" /\ ~delivered[p][1].final
      /\ delivered[p][2].kind = "status" /\ delivered[p][2].final

\* C11, amended: in that scenario the consumer gets exactly three status
\* events and no artifact event: the manager's own initial "working" status,
\* the handler's "working" status, and the final completed status.
C11_ThreeEvents ==
  \A p \in Procs :
    WorkingOnceThenCompleted(p) =>
      /\ Len(delivered[p]) = 3
      /\ \A i \in 1..3 : delivered[p][i].kind = "status"
      /\ delivered[p][1].by = "manager" /\ delivered[p][1].state = "working"
      /\ ~delivered[p][1].final
      /\ delivered[p][2].by = "handler" /\ delivered[p][2].state = "working"
      /\ ~delivered[p][2].final
      /\ delivered[p][3].state = "completed" /\ delivered[p][3].final

\* the scenario has run to the end of its stream
C11_Witness ==
  \E p \in Procs : WorkingOnceThenCompleted(p) /\ Len(delivered[p]) = 3

EndedBeforeHandler(p) ==
  /\ op[p] = "sub"
  /\ \/ err[p] = -32601
     \/ hres[p] = "returned" /\ outcome[p].kind = "none"

\* C13: a subscription that ended before a handler was invoked delivers one
\* event, an error event, and no status or artifact event was pushed on its
\* queue.
C13_ErrorIsOnlyEvent ==
  \A p \in Procs :
    (StreamOver(p) /\ ~cancelled[p] /\ EndedBeforeHandler(p)) =>
      /\ Len(delivered[p]) = 1
      /\ delivered[p][1].kind = "error"
      /\ \A i \in 1..Len(sent[p]) : sent[p][i].kind = "error"

\* the stream of an unroutable subscription is over with its single error event
C13_Witness ==
  \E p \in Procs :
    /\ op[p] = "sub" /\ gpc[p] = "g_done" /\ ~cancelled[p]
    /\ err[p] = -32601
    /\ Len(delivered[p]) = 1 /\ delivered[p][1].kind = "error"

\* the request of p is over: the call has ended and, for a subscription, the
\* generator has finished its cleanup
Finished(p) == pc[p] = "done" /\ (op[p] = "sub" => gpc[p] = "g_done")

\* the request of p was unroutable, or its handler raised or returned a failed
\* Result
FailedRequest(p) ==
  /\ op[p] \in {"send", "sub"}
  /\ \/ err[p] = -32601
     \/ outcome[p].kind = "raise"
     \/ outcome[p].kind = "result" /\ outcome[p].state = "failed"

\* C14: a failed request adds exactly one entry to the dead-letter queue.
\* Stated for the first request the manager serves, run to its end without
\* the transport or the generator cancelling anything: the queue was empty
\* before it, so the increase is the length.
C14_OneDlqEntryPerFailure ==
  \A p \in Procs :
    (/\ calls = 1 /\ Finished(p) /\ FailedRequest(p)
     /\ ~cancelled[p] /\ hres[p] # "cancelled")
      => Len(a2a_dlq) = 1

\* C15: a tasks/cancel that found its task in a non-terminal state (it is then
\* on its way through the "canceled" counter update, holding the task's lock)
\* has set the registry state to canceled and emptied the artifacts, and a
\* tasks/cancel that returned a Task returned it in a terminal state.
C15_CancelSetsCanceled ==
  \A p \in Procs :
    /\ (phase[p] = "cancel" /\ pc[p] \in {"kb_get", "kb_upd"}) =>
         /\ tasks[tid[p]].state = "canceled"
         /\ tasks[tid[p]].artifacts = << >>
    /\ (op[p] = "cancel" /\ Returned(p)) => res[p].state \in TerminalStates

\* One-shot requests on one task id, enough of them for a task to receive two
\* messages and be read, or to be created and cancelled twice.
OneTaskNext ==
  \E p \in Procs :
    \/ Start(p, OneShotOps, {"a"}, MaxOneTaskCalls)
    \/ ManagerStep(p)
    \/ HandlerFinish(p)

SpecOneTask == Init /\ [][OneTaskNext]_vars

\* C16: tasks/cancel is idempotent.  Two tasks/cancel calls on one id with no
\* message accepted in between return the same Task, in a terminal state, and
\* the later one mutates nothing: once one has returned, another one with the
\* history unchanged since is never found past the terminal-state test, about
\* to update the "canceled" counter.
C16_CancelIdempotent ==
  \A p, q \in Procs :
    (/\ p # q /\ tid[p] = tid[q]
     /\ op[p] = "cancel" /\ Returned(p)
     /\ res[p].history = tasks[tid[p]].history)
      => /\ ~(phase[q] = "cancel" /\ pc[q] \in {"kb_get", "kb_upd"})
         /\ (op[q] = "cancel" /\ Returned(q) /\ res[q].history = res[p].history)
              => (res[q] = res[p] /\ res[p].state \in TerminalStates)

\* the last n elements of h, all of h when it has fewer
LastN(h, n) == IF n >= Len(h) THEN h ELSE SubSeq(h, Len(h) - n + 1, Len(h))

\* C17: a tasks/get with historyLength 0 returns a Task with an empty history.
C17_ZeroReturnsNoHistory ==
  \A p \in Procs :
    (op[p] = "get" /\ Returned(p) /\ res[p].hl = 0) => res[p].history = << >>

\* C18: a tasks/get with historyLength n > 0 returns the last n messages of
\* the history stored when it reads the task, in order, and the whole history
\* when fewer than n are stored.
C18_LastNMessages ==
  [][\A p \in Procs :
       (/\ op[p] = "get" /\ pc[p] = "lock" /\ pc'[p] = "done"
        /\ err'[p] = 0 /\ res'[p].hl > 0)
         => res'[p].history = LastN(tasks[tid[p]].history, res'[p].hl)]_vars

\* a tasks/get with historyLength 1 has returned the second of two stored
\* messages
C18_Witness ==
  \E p \in Procs :
    /\ op[p] = "get" /\ Returned(p) /\ res[p].hl = 1
    /\ Len(tasks[tid[p]].history) = 2
    /\ res[p].history = <<tasks[tid[p]].history[2]>>

\* C19: a tasks/get with a negative historyLength returns a Task with an empty
\* history.
C19_NegativeReturnsNoHistory ==
  \A p \in Procs :
    (op[p] = "get" /\ Returned(p) /\ res[p].hl < 0) => res[p].history = << >>

\* C20: a tasks/get or tasks/cancel whose id is not in the registry ends with
\* error -32001, and no step of it changes the registry, the dead-letter queue
\* or the counters.
C20_UnknownIdFails ==
  [][\A p \in Procs :
       (/\ op[p] \in {"get", "cancel"} /\ pc'[p] # pc[p]
        /\ tid[p] \notin DOMAIN tasks)
         => /\ tasks' = tasks /\ a2a_dlq' = a2a_dlq /\ metrics' = metrics
            /\ pc'[p] = "done" => err'[p] = -32001]_vars

\* a tasks/cancel of an unknown id has failed with the registry, the
\* dead-letter queue and the counters as they were at the start
C20_Witness ==
  \E p \in Procs :
    /\ op[p] = "cancel" /\ pc[p] = "done" /\ err[p] = -32001
    /\ tasks = << >> /\ a2a_dlq = << >>
    /\ \A m \in MetricNames : metrics[m] = 0

\* C21: re-entry.  A tasks/send or tasks/sendSubscribe that takes the lock of
\* an existing task in state input-required, completed, working, submitted or
\* canceled is accepted: in that step its message is appended to the history,
\* the registry keeps its entries, the state is working and the handler is
\* invoked.  These states are all among the states the code permits.
C21_ReEntryAccepted ==
  /\ {"input-required", "completed", "working", "submitted", "canceled"}
       \subseteq PermittedStates
  /\ [][\A p \in Procs :
          (/\ phase[p] = "enter" /\ pc[p] = "lock" /\ pc'[p] # "lock"
           /\ hres'[p] # "cancelled"
           /\ tid[p] \in DOMAIN tasks
           /\ tasks[tid[p]].state \in
                {"input-required", "completed", "working", "submitted", "canceled"})
            => /\ DOMAIN tasks' = DOMAIN tasks
               /\ tasks'[tid[p]].history = Append(tasks[tid[p]].history, msg[p])
               /\ tasks'[tid[p]].state = "working"
               /\ pc'[p] = "handler" /\ err'[p] = 0]_vars

\* a subscription has re-entered an existing task: its message is the second
\* of the history and its handler runs
C21_Witness ==
  \E p \in Procs :
    /\ op[p] = "sub" /\ pc[p] = "handler"
    /\ Len(tasks[tid[p]].history) = 2
    /\ tasks[tid[p]].history[2] = msg[p]
    /\ tasks[tid[p]].state = "working"

\* C22: a tasks/send to a task left in a state outside the permitted ones is
\* rejected with -32004 and leaves the task untouched.  Stated for the state
\* failed: once a tasks/send whose handler raised or returned a failed Result
\* has returned with its own message last in the history, the message of
\* another tasks/send is never appended behind it.
C22_FailedTaskRejectsSend ==
  \A p, q \in Procs :
    (/\ p # q /\ tid[q] = tid[p]
     /\ op[p] = "send" /\ Returned(p) /\ Last(res[p].history) = msg[p]
     /\ (outcome[p].kind = "raise" \/ outcome[p].state = "failed")
     /\ op[q] = "send")
      => \A i \in 1..Len(tasks[tid[p]].history) :
           tasks[tid[p]].history[i] = msg[q] => i <= Len(res[p].history)

\* A subscription with a one-shot request beside it, with no fairness assumed.
SpecStreamPair == Init /\ [][StreamLiveNext]_vars

\* the request of p carries a skill id for which the router holds neither a
\* specific handler nor a default
Unroutable(p) ==
  /\ op[p] \in {"send", "sub"}
  /\ skill[p] \notin DOMAIN handlers
  /\ default_handler = NoHandler

\* C23: a tasks/send or tasks/sendSubscribe with an unroutable skill never
\* reaches the task lock or a handler, its message is in no history, and no
\* step of it changes the registry or the table of task locks.
C23_UnroutableTouchesNothing ==
  /\ [](\A p \in Procs :
          Unroutable(p) =>
            /\ pc[p] \notin {"getlock", "lock", "kb_get", "kb_upd", "handler"}
            /\ outcome[p].kind = "none"
            /\ \A t \in DOMAIN tasks :
                 \A i \in 1..Len(tasks[t].history) : tasks[t].history[i] # msg[p])
  /\ [][\A p \in Procs :
          (Unroutable(p) /\ pc'[p] # pc[p])
            => (tasks' = tasks /\ task_locks' = task_locks)]_vars

\* the first request served was an unroutable subscription: it is over, filed
\* in the dead-letter queue, with no task and no task lock created
C23_Witness ==
  \E p \in Procs :
    /\ Unroutable(p) /\ op[p] = "sub" /\ Finished(p)
    /\ calls = 1 /\ Len(a2a_dlq) = 1
    /\ tasks = << >> /\ task_locks = << >>

\* C24: an unroutable skill is reported with code -32601: as the error of a
\* tasks/send, and as the code of the error event that ends the stream of a
\* tasks/sendSubscribe.
C24_UnroutableCode ==
  \A p \in Procs :
    (Unroutable(p) /\ Finished(p) /\ ~cancelled[p]) =>
      /\ op[p] = "send" => err[p] = -32601
      /\ op[p] = "sub" =>
           /\ delivered[p] # << >>
           /\ Last(delivered[p]).kind = "error"
           /\ Last(delivered[p]).code = -32601

\* C25: result commit.  A tasks/send that has committed the Result of its
\* handler (it is still inside the commit block, holding the task's lock, on
\* its way through the counter update or the dead-letter entry) has left the
\* registry task with the state of the Result and with exactly the artifacts
\* of the Result.
C25_ResultCommitted ==
  \A p \in Procs :
    (/\ op[p] = "send" /\ phase[p] = "commit"
     /\ pc[p] \in {"kb_get", "kb_upd", "dlq", "dlq_metric"}
     /\ outcome[p].kind = "result")
      => /\ tasks[tid[p]].state = outcome[p].state
         /\ tasks[tid[p]].artifacts = outcome[p].artifacts

\* C26: the Task a tasks/send returns is a copy of what its own commit left:
\* from the end of its commit block to the copy taken for the return, no step
\* changes the registry task.
C26_ReturnsOwnCommit ==
  [][\A p \in Procs :
       (op[p] = "send" /\ phase[p] = "ret" /\ pc[p] \in {"getlock", "lock"})
         => tasks'[tid[p]] = tasks[tid[p]]]_vars

\* C27: every change of a registry task's state is a permitted lifecycle
\* transition: a task is created at working; a new message takes a task from
\* a permitted state to working; working goes to completed, failed, canceled
\* or input-required; a non-terminal state goes to canceled; nothing else
\* (no canceled -> completed, no change to submitted or unknown).
PermittedTransition(old, new) ==
  \/ old \in PermittedStates /\ new = "working"
  \/ old = "working" /\ new \in {"completed", "failed", "canceled", "input-required"}
  \/ old \notin TerminalStates /\ new = "canceled"

IsPrefix(h, g) == Len(h) <= Len(g) /\ SubSeq(g, 1, Len(h)) = h

C28_HistoryAppendOnly ==
  [][\A t \in DOMAIN tasks :
       /\ t \in DOMAIN tasks'
       /\ IsPrefix(tasks[t].history, tasks'[t].history)]_vars

\* a tasks/get has returned a copy shorter than the stored two-message history
C28_Witness ==
  \E p, q \in Procs :
    /\ op[p] = "get" /\ Returned(p)
    /\ Len(res[p].history) < Len(tasks[tid[p]].history)
    /\ Len(tasks[tid[p]].history) = 2
    /\ op[q] = "send" /\ tid[q] = tid[p] /\ tasks[tid[p]].history[2] = msg[q]

\* What handle_task_send leaves behind for a request that created its task and
\* whose handler ended with outcome o: the registry after the commit line, the
\* increments of the completed and failed counters, and the number of
\* dead-letter entries filed.
SendCommit(t, m, o) ==
  [registry |-> update_task_state(
                  t :> [state |-> "working", history |-> <<m>>, artifacts |-> << >>],
                  t, IF o.kind = "raise" THEN "failed" ELSE o.state, o.artifacts, TRUE),
   completed |-> IF o.kind = "result" /\ o.state = "completed" THEN 1 ELSE 0,
   failed |-> IF o.kind = "raise" \/ o.state = "failed" THEN 1 ELSE 0,
   dlq |-> IF o.kind = "raise" \/ o.state = "failed" THEN 1 ELSE 0]

\* C29: one-shot and streaming commit are equivalent.  For a single request on
\* an empty registry whose handler ended with some outcome, a tasks/send and a
\* tasks/sendSubscribe alike leave the registry task, the completed and failed
\* counters and the number of dead-letter entries that the one-shot commit
\* leaves for that outcome.
C29_StreamingCommitsLikeSend ==
  \A p \in Procs :
    (/\ calls = 1 /\ op[p] \in {"send", "sub"} /\ Finished(p)
     /\ outcome[p].kind # "none" /\ hres[p] # "cancelled" /\ ~cancelled[p])
      => LET c == SendCommit(tid[p], msg[p], outcome[p]) IN
         /\ tasks = c.registry
         /\ metrics["completed"] = c.completed
         /\ metrics["failed"] = c.failed
         /\ Len(a2a_dlq) = c.dlq

\* ---------------------------------------------------------------- router
\* asyncio.iscoroutinefunction(handler)
AnyCallable(h) == TRUE
iscoroutinefunction(h) == h # "sync"

\* A2ATaskRouter.register_handler: a function that is not a coroutine function
\* is not registered; otherwise the entry of the skill id is set or overwritten.
register_handler(skill_id, handler) ==
  /\ Len(registrations) < MaxRegistrations + 1
  /\ registrations' = Append(registrations,
                        [default |-> FALSE, skill_id |-> skill_id, handler |-> handler])
  /\ handlers' = IF iscoroutinefunction(handler)
                   THEN [s \in DOMAIN handlers \cup {skill_id} |->
                           IF s = skill_id THEN handler ELSE handlers[s]]
                   ELSE handlers
  /\ UNCHANGED <<mgrVars, default_handler, calls, routedTo, callVars, coVars, genVars,
                 clientVars, mcpVars>>

\* A2ATaskRouter.register_default_handler
register_default_handler(handler) ==
  /\ Len(registrations) < MaxRegistrations + 1
  /\ registrations' = Append(registrations,
                        [default |-> TRUE, skill_id |-> "", handler |-> handler])
  /\ default_handler' = IF iscoroutinefunction(handler) THEN handler ELSE default_handler
  /\ UNCHANGED <<mgrVars, handlers, calls, routedTo, callVars, coVars, genVars,
                 clientVars, mcpVars>>

RouterNext ==
  \/ \E s \in RouterSkills, h \in Handlers : register_handler(s, h)
  \/ \E h \in Handlers : register_default_handler(h)

SpecRouter == Init /\ [][RouterNext]_vars

\* the handler of the latest registration call that took effect for skill id s
\* (for the default slot when d is TRUE), NoHandler when there is none
MostRecentlyRegistered(d, s) ==
  LET I == {i \in 1..Len(registrations) :
              /\ registrations[i].default = d
              /\ registrations[i].skill_id = s
              /\ iscoroutinefunction(registrations[i].handler)}
  IN IF I = {} THEN NoHandler
     ELSE registrations[CHOOSE i \in I : \A j \in I : j <= i].handler

\* C30: router lookup.  After any sequence of register_handler and
\* register_default_handler calls, get_handler(skillId) is the handler most
\* recently registered for skillId when there is one, otherwise the most
\* recently registered default handler, otherwise none.
C30_RouterLookup ==
  \A s \in RouterSkills :
    get_handler(s) =
      IF MostRecentlyRegistered(FALSE, s) # NoHandler
        THEN MostRecentlyRegistered(FALSE, s)
        ELSE MostRecentlyRegistered(TRUE, "")

\* C31: registering a handler that is not an asynchronous callable, with
\* register_handler or register_default_handler, is a no-op: the mapping from
\* skill ids to handlers and the default slot are as they were, also when a
\* valid handler was registered for that skill before.
C31_RejectedRegistrationIsNoOp ==
  [][(/\ Len(registrations') = Len(registrations) + 1
      /\ Last(registrations').handler = "sync")
       => /\ handlers' = handlers
          /\ default_handler' = default_handler]_vars

\* "sync" was offered for skill "known", which had a valid handler, and as the
\* default, which had one as well
C31_Witness ==
  /\ Len(registrations) = 4
  /\ registrations[2] = [default |-> TRUE, skill_id |-> "", handler |-> "h2"]
  /\ registrations[3] = [default |-> FALSE, skill_id |-> "known", handler |-> "sync"]
  /\ registrations[4] = [default |-> TRUE, skill_id |-> "", handler |-> "sync"]
  /\ handlers = ("known" :> "h1")
  /\ default_handler = "h2"

\* ---------------------------------------------------------------- client
MaxLines == 3

\* What a line of the event stream can carry: a non-final or a final status
\* event, an artifact event, an error, or something that is skipped (no
\* "data:" prefix, undecodable JSON, a result that does not parse).
ClientLines ==
  { [kind |-> "status", state |-> "working", final |-> FALSE],
    [kind |-> "status", state |-> "completed", final |-> TRUE],
    [kind |-> "artifact", state |-> "none", final |-> FALSE],
    [kind |-> "error", state |-> "none", final |-> FALSE],
    [kind |-> "skipped", state |-> "none", final |-> FALSE] }

\* send_task after the stream: raise on an error, else a Task built from the
\* last status seen, else fetch the task.
AfterStream(exc, last) ==
  IF exc THEN [cpc |-> "done", creturn |-> "raised"]
  ELSE IF last # "none" THEN [cpc |-> "done", creturn |-> "streamed"]
  ELSE [cpc |-> "fetch", creturn |-> "none"]

\* send_task up to its request: streaming when a callback is given and the
\* agent card allows it
ClientStart(streaming) ==
  /\ cpc = "idle"
  /\ use_streaming' = streaming
  /\ cpc' = IF streaming THEN "stream" ELSE "rpc"
  /\ UNCHANGED <<mgrVars, routerVars, mcpVars, calls, routedTo, callVars, coVars, genVars,
                 received, last_known_task_state, stream_exc, ended, creturn>>

\* the one-shot request: _send_json_rpc returns the result or raises
ClientRpc(ok) ==
  /\ cpc = "rpc"
  /\ cpc' = "done"
  /\ creturn' = IF ok THEN "sent" ELSE "raised"
  /\ UNCHANGED <<mgrVars, routerVars, mcpVars, calls, routedTo, callVars, coVars, genVars,
                 use_streaming, received, last_known_task_state, stream_exc, ended>>

\* one pass of `async for line in response.aiter_lines()`
ClientLine(e) ==
  /\ cpc = "stream"
  /\ Len(received) < MaxLines
  /\ received' = Append(received, e)
  /\ stream_exc' = (e.kind = "error")
  /\ last_known_task_state' = IF e.kind = "status" THEN e.state ELSE last_known_task_state
  /\ IF e.kind = "error" \/ (e.kind = "status" /\ e.final)
       THEN /\ ended' = IF e.kind = "error" THEN "error" ELSE "final"
            /\ cpc' = AfterStream(stream_exc', last_known_task_state').cpc
            /\ creturn' = AfterStream(stream_exc', last_known_task_state').creturn
       ELSE UNCHANGED <<ended, cpc, creturn>>
  /\ UNCHANGED <<mgrVars, routerVars, mcpVars, calls, routedTo, callVars, coVars, genVars,
                 use_streaming>>

\* aiter_lines is exhausted: the stream ended with no final and no error event
ClientStreamEnd ==
  /\ cpc = "stream"
  /\ ended' = "exhausted"
  /\ cpc' = AfterStream(stream_exc, last_known_task_state).cpc
  /\ creturn' = AfterStream(stream_exc, last_known_task_state).creturn
  /\ UNCHANGED <<mgrVars, routerVars, mcpVars, calls, routedTo, callVars, coVars, genVars,
                 use_streaming, received, last_known_task_state, stream_exc>>

\* the transport raises (httpx.RequestError, a bad HTTP status): send_task
\* raises ConnectionError or APIAException
ClientStreamFails ==
  /\ cpc = "stream"
  /\ ended' = "broken"
  /\ cpc' = "done"
  /\ creturn' = "raised"
  /\ UNCHANGED <<mgrVars, routerVars, mcpVars, calls, routedTo, callVars, coVars, genVars,
                 use_streaming, received, last_known_task_state, stream_exc>>

\* the fallback: self.get_task(...) returns the Task or raises
ClientFetch(ok) ==
  /\ cpc = "fetch"
  /\ cpc' = "done"
  /\ creturn' = IF ok THEN "fetched" ELSE "raised"
  /\ UNCHANGED <<mgrVars, routerVars, mcpVars, calls, routedTo, callVars, coVars, genVars,
                 use_streaming, received, last_known_task_state, stream_exc, ended>>

ClientNext ==
  \/ \E streaming \in BOOLEAN : ClientStart(streaming)
  \/ \E ok \in BOOLEAN : ClientRpc(ok)
  \/ \E e \in ClientLines : ClientLine(e)
  \/ ClientStreamEnd
  \/ ClientStreamFails
  \/ \E ok \in BOOLEAN : ClientFetch(ok)

SpecClient == Init /\ [][ClientNext]_vars

FinalStatusReceived ==
  \E i \in 1..Len(received) : received[i].kind = "status" /\ received[i].final

\* C32: client-side streaming.  Whenever the event stream ends without a final
\* status event and without an error event, send_task falls back to a
\* tasks/get and returns the fetched Task (or fails when the fetch fails); it
\* returns a Task built from streamed status only when a final status event
\* was received.
C32_InconclusiveStreamIsFetched ==
  /\ (ended = "exhausted" /\ cpc = "done") =>
       \/ creturn = "fetched"
       \/ creturn = "raised" /\ last_known_task_state = "none"
  /\ ended = "exhausted" => cpc \in {"fetch", "done"} /\ creturn # "streamed"
  /\ creturn = "streamed" => FinalStatusReceived

\* C33: the dead-letter queue is append-only: over every step its length does
\* not decrease and every entry stays at its position unchanged.
C33_DlqAppendOnly ==
  [][IsPrefix(a2a_dlq, a2a_dlq')]_vars

\* two requests have each filed an entry, the unroutable one first
C33_Witness ==
  /\ Len(a2a_dlq) = 2
  /\ a2a_dlq[1] = <<"a", "tasks/send", "No suitable handler found">>
  /\ a2a_dlq[2] = <<"a", "tasks/sendSubscribe", "Stream handler failed">>

\* the locks process p holds
TaskLocksHeld(p) == {t \in DOMAIN task_locks : task_locks[t] = p}
HoldsNoLock(p) == TaskLocksHeld(p) = {} /\ global_lock # p

\* C34: deadlock freedom.  No call waits for a per-task lock while it holds the
\* global lock, no call holds two per-task locks, and, handlers and
\* metrics-store calls returning, every call in the end has returned (its
\* stream over, for a subscription) with all its locks released.
C34_DeadlockFree ==
  /\ [](\A p \in Procs :
          /\ pc[p] = "lock" => global_lock # p
          /\ Cardinality(TaskLocksHeld(p)) <= 1
          /\ Free(p) => HoldsNoLock(p))
  /\ \A p \in Procs : ~Free(p) ~> Free(p)

\* a call waits for the task lock while its holder, inside the commit block,
\* also holds the global lock to file a dead-letter entry
C34_Witness ==
  \E p, q \in Procs :
    /\ p # q /\ pc[p] = "lock" /\ tid[p] = tid[q]
    /\ task_locks[tid[q]] = q /\ global_lock = q /\ pc[q] = "dlq_metric"

\* C35: for every handler invocation, the incoming message of the Context (the
\* last element of the history of the snapshot taken for the handler) is the
\* message of the tasks/send or tasks/sendSubscribe call that invokes it, also
\* with several calls for the same task id in flight.
C35_IncomingMessageIsOwn ==
  [][\A p \in Procs :
       (pc[p] # "handler" /\ pc'[p] = "handler")
         => /\ CopyTask(tasks', tid[p]).history # << >>
            /\ Last(CopyTask(tasks', tid[p]).history) = msg[p]]_vars

\* a subscription and a send for the same id both have their handler running
C35_Witness ==
  \E p, q \in Procs :
    /\ op[p] = "sub" /\ op[q] = "send" /\ tid[p] = tid[q]
    /\ pc[p] = "handler" /\ pc[q] = "handler"
    /\ tasks[tid[p]].history = <<msg[p], msg[q]>>

\* C36: while a tasks/sendSubscribe stream for a task id is active (its
\* generator has registered its queue and is still in its loop), the
\* streaming-queue table holds an entry for that id, also when two
\* subscriptions for the same id overlap.
C36_ActiveStreamHasEntry ==
  \A p \in Procs :
    (op[p] = "sub" /\ gpc[p] = "g_wait") => tid[p] \in DOMAIN streaming_queues

\* C37: no handler invocation started by a subscription outlives its stream:
\* when the event generator of a tasks/sendSubscribe has finished (after a
\* final event, an error event or a cancellation by the transport), the
\* background task running handle_task_send_subscribe is over: it returned,
\* raised, or was cancelled and awaited.
C37_HandlerTaskOverWithStream ==
  \A p \in Procs :
    (op[p] = "sub" /\ gpc[p] = "g_done")
      => /\ pc[p] = "done"
         /\ hres[p] \in {"returned", "raised", "cancelled"}

\* the transport cancelled a stream whose handler was running: the handler
\* task was cancelled and the generator has finished
C37_Witness ==
  \E p \in Procs :
    /\ op[p] = "sub" /\ gpc[p] = "g_done" /\ cancelled[p]
    /\ hres[p] = "cancelled" /\ outcome[p].kind = "none"
    /\ tid[p] \in DOMAIN tasks /\ delivered[p] # << >>

\* C38: counters have no lost updates.  After two concurrent tasks/send calls
\* for different task ids have returned, the received counter is the number
\* of tasks created in the registry, and the completed and failed counters
\* are the numbers of commits of each kind.
C38_NoLostCounterUpdate ==
  (/\ \A p \in Procs : op[p] = "send" /\ Returned(p)
   /\ tid["p1"] # tid["p2"])
    => /\ metrics["received"] = Cardinality(DOMAIN tasks)
       /\ metrics["completed"] =
            Cardinality({p \in Procs : outcome[p].kind = "result"
                                       /\ outcome[p].state = "completed"})
       /\ metrics["failed"] =
            Cardinality({p \in Procs : outcome[p].kind = "raise"
                                       \/ outcome[p].state = "failed"})

\* C39: the per-task lock table only holds ids submitted by some tasks/send or
\* tasks/sendSubscribe call (an id in the registry, or the id of such a call in
\* progress): a tasks/get or tasks/cancel with an unknown id adds no entry.
C39_LockTableOnlySubmittedIds ==
  \A t \in DOMAIN task_locks :
    \/ t \in DOMAIN tasks
    \/ \E p \in Procs : op[p] \in {"send", "sub"} /\ tid[p] = t

\* ---------------------------------------------------------------- MCP sessions
\* MCPClientManager for one configured server name.  A _connect task is an
\* entry of `attempts`; the session it creates is numbered like the task.
MaxAttempts == 3

InFlight == {a \in 1..Len(attempts) : attempts[a].state \in {"created", "connecting"}}

\* get_session: `server_name not in self._connection_tasks or
\* self._connection_tasks[server_name].done()`
AlwaysNewTask == TRUE
NeedsNewTask == connection_tasks = 0 \/ connection_tasks \notin InFlight

\* get_session up to `await self._connection_tasks[server_name]`: a stored
\* session is returned at once; otherwise a _connect task is created unless one
\* is pending, and the caller awaits the task in the table.
get_session(c) ==
  /\ mpc[c] \in {"idle", "done"}
  /\ IF sessions # 0
       THEN /\ mres' = [mres EXCEPT ![c] = sessions]
            /\ mpc' = [mpc EXCEPT ![c] = "done"]
            /\ UNCHANGED <<connection_tasks, attempts, mwait>>
       ELSE /\ IF NeedsNewTask
                 THEN /\ Len(attempts) < MaxAttempts
                      /\ attempts' = Append(attempts, [state |-> "created", result |-> 0])
                      /\ connection_tasks' = Len(attempts) + 1
                 ELSE UNCHANGED <<attempts, connection_tasks>>
            /\ mwait' = [mwait EXCEPT ![c] = connection_tasks']
            /\ mpc' = [mpc EXCEPT ![c] = "awaiting"]
            /\ mres' = [mres EXCEPT ![c] = 0]
  /\ UNCHANGED <<mgrVars, routerVars, clientVars, calls, routedTo, callVars, coVars, genVars,
                 sessions, mcp_locks, stored>>

\* _connect from its start to its first await: the lock of the server name is
\* taken; a session stored meanwhile is returned; otherwise the connection is
\* being opened.
ConnectBegin(a) ==
  /\ a \in 1..Len(attempts)
  /\ attempts[a].state = "created"
  /\ mcp_locks = 0
  /\ IF sessions # 0
       THEN /\ attempts' = [attempts EXCEPT ![a] = [state |-> "ok", result |-> sessions]]
            /\ UNCHANGED mcp_locks
       ELSE /\ attempts' = [attempts EXCEPT ![a].state = "connecting"]
            /\ mcp_locks' = a
  /\ UNCHANGED <<mgrVars, routerVars, clientVars, calls, routedTo, callVars, coVars, genVars,
                 sessions, connection_tasks, stored, mpc, mwait, mres>>

\* _connect after its awaits: the new session is stored and the table entry of
\* the server name deleted, or the attempt failed and the entry is deleted too.
ConnectEnd(a, ok) ==
  /\ a \in 1..Len(attempts)
  /\ attempts[a].state = "connecting"
  /\ mcp_locks' = 0
  /\ connection_tasks' = 0
  /\ IF ok
       THEN /\ sessions' = a
            /\ stored' = stored \cup {a}
            /\ attempts' = [attempts EXCEPT ![a] = [state |-> "ok", result |-> a]]
       ELSE /\ sessions' = 0
            /\ attempts' = [attempts EXCEPT ![a].state = "failed"]
            /\ UNCHANGED stored
  /\ UNCHANGED <<mgrVars, routerVars, clientVars, calls, routedTo, callVars, coVars, genVars,
                 mpc, mwait, mres>>

\* `await task` returns the session or raises ConnectionError; a caller that
\* awaited a cancelled task gets CancelledError
SessionAwaited(c) ==
  /\ mpc[c] = "awaiting"
  /\ mwait[c] \notin InFlight
  /\ mres' = [mres EXCEPT ![c] =
                CASE attempts[mwait[c]].state = "ok" -> attempts[mwait[c]].result
                  [] attempts[mwait[c]].state = "failed" -> -1
                  [] OTHER -> -2]
  /\ mpc' = [mpc EXCEPT ![c] = "done"]
  /\ UNCHANGED <<mgrVars, routerVars, clientVars, calls, routedTo, callVars, coVars, genVars,
                 sessions, mcp_locks, connection_tasks, attempts, stored, mwait>>

\* a caller is cancelled while it awaits: the cancellation goes on to the
\* _connect task, which leaves its lock; the table keeps the cancelled task
CallerCancelled(c) ==
  /\ mpc[c] = "awaiting"
  /\ mwait[c] \in InFlight
  /\ attempts' = [attempts EXCEPT ![mwait[c]].state = "cancelled"]
  /\ mcp_locks' = IF mcp_locks = mwait[c] THEN 0 ELSE mcp_locks
  /\ mres' = [mres EXCEPT ![c] = -2]
  /\ mpc' = [mpc EXCEPT ![c] = "done"]
  /\ UNCHANGED <<mgrVars, routerVars, clientVars, calls, routedTo, callVars, coVars, genVars,
                 sessions, connection_tasks, stored, mwait>>

McpNext ==
  \/ \E c \in McpCallers : get_session(c) \/ SessionAwaited(c) \/ CallerCancelled(c)
  \/ \E a \in 1..MaxAttempts : ConnectBegin(a) \/ (\E ok \in BOOLEAN : ConnectEnd(a, ok))

SpecMcp == Init /\ [][McpNext]_vars

\* C40: MCPClientManager.get_session.  For any number of concurrent
\* get_session calls for the same configured server name, at most one _connect
\* is in flight at a time, at most one session is ever stored for the name,
\* and every caller that succeeds has received that session.
C40_OneConnectOneSession ==
  /\ Cardinality(InFlight) <= 1
  /\ Cardinality(stored) <= 1
  /\ \A c \in McpCallers :
       (mpc[c] = "done" /\ mres[c] > 0) => (sessions = mres[c] /\ stored = {mres[c]})

\* a first attempt failed, a second one connected, and three callers hold the
\* session: one that awaited the second attempt from its start, two that
\* came while it was pending or after it
C40_Witness ==
  /\ Len(attempts) = 2
  /\ attempts[1].state = "failed" /\ attempts[2].state = "ok"
  /\ \A c \in McpCallers : mpc[c] = "done" /\ mres[c] = 2
  /\ mwait["c1"] = 2 /\ mwait["c2"] = 2 /\ mwait["c3"] = 1

====
